---- MODULE Spec2Model ----
(***************************************************************************)
(* Settlement engine of GoSettlement (src/unnamed/part_006): the account   *)
(* ledger, the transaction log, the bounded settlement channel and the     *)
(* batch-processing goroutine, as a state machine.                         *)
(*                                                                         *)
(* Amounts are float64 in the source; they are modelled as integers drawn  *)
(* from small sets (no rounding).  Timestamps (UpdatedAt, Timestamp) are   *)
(* not modelled except for the clock reading that becomes Transaction.ID.  *)
(***************************************************************************)
EXTENDS Integers, Sequences, FiniteSets, TLC

\* ------------------------------------------------------------------ bounds
\* Capacity of settlementChan (1000 in NewSettlementEngine, scaled down).
QueueCap == 2
\* batchSize (100 in NewSettlementEngine, 3 in TestBatchProcessing).
BatchSize == 2
\* batchTimeout in timer ticks (5 s in NewSettlementEngine).
BatchTimeout == 2
\* SubmitTransaction calls that pass validation, per specification.
MaxTx == 3
MaxLedgerTx == 1
MaxSettleTx == 1
\* Successful FreezeAmount / UnfreezeAmount calls, per specification.
MaxFreezeOps == 2
\* SubmitTransaction calls of the two-account scenario.
MaxCrossTx == 2
\* The time.Sleep of the tests (100 ms), in timer ticks.
TestWait == 1
\* Start calls of the scenario in which Start is not called just once.
MaxWorkers == 2

\* ------------------------------------------------------------------ inputs
Users == {"u1", "u2"}
\* Transaction.Type is an open string: "refund" stands for any other value
TxTypes == {"credit", "debit", "refund"}

\* ------------------------------------------------------------------ errors
\* The error values of the source (fmt.Errorf / ErrorMessage strings).
NoError == "nil"
ErrDuplicateAccount == "DuplicateAccount"
ErrInvalidTransaction == "InvalidTransaction"
ErrQueueFull == "QueueFull"
ErrAccountNotFound == "AccountNotFound"
ErrFreezeInsufficient == "InsufficientBalanceToFreeze"
ErrUnfreezeInsufficient == "InsufficientFrozenFunds"
MsgAccountNotFound == "account does not exist"
MsgInsufficientBalance == "insufficient balance"
MsgInvalidType == "invalid transaction type"
MsgNone == ""

VARIABLES
    accounts,        \* se.accounts: map user id -> Account
    transactions,    \* se.transactions: the transaction log (copies)
    settlementChan,  \* se.settlementChan: buffered channel of *Transaction
    sending,         \* callers of SubmitTransaction between Unlock and select
    rejected,        \* log positions of transactions whose send hit default:
    stopClosed,      \* se.stopChan has been closed
    panicked,        \* the process died on a run-time panic
    mutex,           \* se.mutex: 0 free, w > 0 write-locked by worker w
    worker,          \* the processSettlementQueue goroutines, in the order started
    clock,           \* last value time.Now().UnixNano() returned
    results,         \* every SettlementResult produced, in order
    freezeOps,       \* successful FreezeAmount/UnfreezeAmount calls so far
    ret,             \* the last API call that returned a value, and its error
    handle           \* the *Account the last GetAccount handed to its caller

vars == <<accounts, transactions, settlementChan, sending, rejected, stopClosed,
          panicked, mutex, worker, clock, results, freezeOps, ret, handle>>

\* ------------------------------------------------------------- data types
NewAccount(u, b) == [UserID |-> u, Balance |-> b, FrozenAmount |-> 0, Version |-> 1]

NilHandle == [user |-> "", snap |-> NewAccount("", 0)]

Return(op, err) == [op |-> op, err |-> err]

Init ==
    /\ accounts = [u \in {} |-> NewAccount(u, 0)]
    /\ transactions = <<>>
    /\ settlementChan = <<>>
    /\ sending = {}
    /\ rejected = {}
    /\ stopClosed = FALSE
    /\ panicked = FALSE
    /\ mutex = 0
    /\ worker = <<>>
    /\ clock = 0
    /\ results = <<>>
    /\ freezeOps = 0
    /\ ret = Return("NewSettlementEngine", NoError)
    /\ handle = NilHandle

\* ------------------------------------------------------------ the ledger
\* the process has not died on a panic
Alive == ~panicked

\* mutant: the API calls do not wait for the lock
LockFreeUnlocked == Alive

\* se.mutex.Lock() / RLock() return only while no flush holds the write lock;
\* every API critical section below runs to its Unlock within one step.
LockFree == Alive /\ mutex = 0

\* mutant: the lookup never finds the account
HasAccountNever(u) == FALSE

\* _, exists := se.accounts[userID]
HasAccount(u) == u \in DOMAIN accounts

\* accounts[userID] = &Account{...}
InsertAccount(u, b) ==
    [x \in DOMAIN accounts \cup {u} |-> IF x = u THEN NewAccount(u, b) ELSE accounts[x]]

CreateAccount(u, b) ==
    /\ LockFree
    /\ IF HasAccount(u)
       THEN /\ ret' = Return("CreateAccount", ErrDuplicateAccount)
            /\ UNCHANGED accounts
       ELSE /\ accounts' = InsertAccount(u, b)
            /\ ret' = Return("CreateAccount", NoError)
    /\ UNCHANGED <<transactions, settlementChan, sending, rejected, stopClosed,
                   panicked, mutex, worker, clock, results, freezeOps, handle>>

\* mutant: freezing the whole balance is refused
FreezeRefusedAtBalance(acc, a) == acc.Balance <= a

\* if account.Balance < amount { return error }
FreezeRefused(acc, a) == acc.Balance < a

\* account.Balance -= amount; account.FrozenAmount += amount; account.Version++
Frozen(acc, a) ==
    [acc EXCEPT !.Balance = @ - a, !.FrozenAmount = @ + a, !.Version = @ + 1]

FreezeAmount(u, a) ==
    /\ LockFree
    /\ IF ~HasAccount(u)
       THEN /\ ret' = Return("FreezeAmount", ErrAccountNotFound)
            /\ UNCHANGED <<accounts, freezeOps>>
       ELSE IF FreezeRefused(accounts[u], a)
       THEN /\ ret' = Return("FreezeAmount", ErrFreezeInsufficient)
            /\ UNCHANGED <<accounts, freezeOps>>
       ELSE /\ accounts' = [accounts EXCEPT ![u] = Frozen(@, a)]
            /\ freezeOps' = freezeOps + 1
            /\ ret' = Return("FreezeAmount", NoError)
    /\ UNCHANGED <<transactions, settlementChan, sending, rejected, stopClosed,
                   panicked, mutex, worker, clock, results, handle>>

\* mutant: unfreezing the whole frozen amount is refused
UnfreezeRefusedAtFrozen(acc, a) == acc.FrozenAmount <= a

\* if account.FrozenAmount < amount { return error }
UnfreezeRefused(acc, a) == acc.FrozenAmount < a

\* mutant: unfreezing leaves the version as it is
UnfrozenSameVersion(acc, a) ==
    [acc EXCEPT !.Balance = @ + a, !.FrozenAmount = @ - a]

\* account.Balance += amount; account.FrozenAmount -= amount; account.Version++
Unfrozen(acc, a) ==
    [acc EXCEPT !.Balance = @ + a, !.FrozenAmount = @ - a, !.Version = @ + 1]

UnfreezeAmount(u, a) ==
    /\ LockFree
    /\ IF ~HasAccount(u)
       THEN /\ ret' = Return("UnfreezeAmount", ErrAccountNotFound)
            /\ UNCHANGED <<accounts, freezeOps>>
       ELSE IF UnfreezeRefused(accounts[u], a)
       THEN /\ ret' = Return("UnfreezeAmount", ErrUnfreezeInsufficient)
            /\ UNCHANGED <<accounts, freezeOps>>
       ELSE /\ accounts' = [accounts EXCEPT ![u] = Unfrozen(@, a)]
            /\ freezeOps' = freezeOps + 1
            /\ ret' = Return("UnfreezeAmount", NoError)
    /\ UNCHANGED <<transactions, settlementChan, sending, rejected, stopClosed,
                   panicked, mutex, worker, clock, results, handle>>

\* return account, nil: the pointer stored in the map, not a copy.  snap records
\* what the account held when the call returned.
GetAccount(u) ==
    /\ LockFree
    /\ IF ~HasAccount(u)
       THEN /\ ret' = Return("GetAccount", ErrAccountNotFound)
            /\ handle' = NilHandle
       ELSE /\ ret' = Return("GetAccount", NoError)
            /\ handle' = [user |-> u, snap |-> accounts[u]]
    /\ UNCHANGED <<accounts, transactions, settlementChan, sending, rejected,
                   stopClosed, panicked, mutex, worker, clock, results, freezeOps>>

\* What a caller can read through the pointer GetAccount returned.  The read takes
\* no lock, so it races with the writers: each field shows either what it held
\* when GetAccount returned or what the account holds now.
HandleReads(h) ==
    LET live == accounts[h.user] IN
    { [UserID |-> h.user, Balance |-> b, FrozenAmount |-> f, Version |-> v] :
        b \in {h.snap.Balance, live.Balance},
        f \in {h.snap.FrozenAmount, live.FrozenAmount},
        v \in {h.snap.Version, live.Version} }

\* if tx.Status == "pending" { pending++ } else { processed++ }
IsPending(tx) == tx.Status = "pending"

\* mutant: the transactions waiting on the queue are counted, not the log
StatsOfQueue ==
    [total_accounts |-> Cardinality(DOMAIN accounts),
     total_transactions |-> Len(settlementChan),
     pending_transactions |-> Len(settlementChan),
     processed_transactions |-> 0]

\* the map GetTransactionStats builds
Stats ==
    [total_accounts |-> Cardinality(DOMAIN accounts),
     total_transactions |-> Len(transactions),
     pending_transactions |->
         Cardinality({k \in 1 .. Len(transactions) : IsPending(transactions[k])}),
     processed_transactions |->
         Cardinality({k \in 1 .. Len(transactions) : ~IsPending(transactions[k])})]

GetTransactionStats ==
    /\ LockFree
    /\ ret' = Return("GetTransactionStats", NoError)
    /\ UNCHANGED <<accounts, transactions, settlementChan, sending, rejected, stopClosed,
                   panicked, mutex, worker, clock, results, freezeOps, handle>>

\* ----------------------------------------------------- submission gateway
\* mutant: a zero amount passes validation
InvalidTxZeroPasses(u, a) == u = "" \/ a < 0

\* if tx.UserID == "" || tx.Amount <= 0 { return error }
InvalidTx(u, a) == u = "" \/ a <= 0

\* time.Now().UnixNano(): the clock never runs backwards, and two readings may
\* be equal (concurrent callers, or a clock coarser than the call rate).
ClockReadings == {clock, clock + 1}

\* the readings of a clock that has advanced since it was last read
FreshReadings == {clock + 1}

\* tx.ID, tx.Timestamp, tx.Status are stamped; logIdx names the object by the
\* position its copy takes in the log.
Stamped(u, a, ty, t) ==
    [logIdx |-> Len(transactions) + 1, ID |-> t, UserID |-> u, Amount |-> a,
     Type |-> ty, Status |-> "pending"]

\* mutant: a log that keeps only its two latest entries
LoggedCapped(log, tx) == IF Len(log) >= 2 THEN Append(Tail(log), tx) ELSE Append(log, tx)

\* mutant: the transaction goes to the queue without being logged
LoggedNothing(log, tx) == log

\* se.transactions = append(se.transactions, *tx)
Logged(log, tx) == Append(log, tx)

\* lines 85-95: validation, stamping (t is what time.Now() reads) and the append
\* under the lock.  A call that fails validation returns here; any other is left
\* in front of its select.
SubmitTransaction(u, a, ty, t) ==
    IF InvalidTx(u, a)
    THEN /\ Alive
         /\ ret' = Return("SubmitTransaction", ErrInvalidTransaction)
         /\ UNCHANGED <<accounts, transactions, settlementChan, sending, rejected,
                        stopClosed, panicked, mutex, worker, clock, results,
                        freezeOps, handle>>
    ELSE /\ LockFree
         /\ clock' = t
         /\ transactions' = Logged(transactions, Stamped(u, a, ty, t))
         /\ sending' = sending \cup {Stamped(u, a, ty, t)}
         /\ UNCHANGED <<accounts, settlementChan, rejected, stopClosed, panicked,
                        mutex, worker, results, freezeOps, ret, handle>>

\* mutant: the send never finds the channel full
ChanHasRoomAlways == TRUE

\* mutant: one item more than the capacity is let in
ChanHasRoomOffByOne == Len(settlementChan) <= QueueCap

\* the channel send of the select can proceed
ChanHasRoom == Len(settlementChan) < QueueCap

\* mutant: the send puts the transaction at the head of the queue
SubmitSendFront(tx) ==
    /\ Alive
    /\ tx \in sending
    /\ sending' = sending \ {tx}
    /\ IF ChanHasRoom
       THEN /\ settlementChan' = <<tx>> \o settlementChan
            /\ ret' = Return("SubmitTransaction", NoError)
            /\ UNCHANGED rejected
       ELSE /\ rejected' = rejected \cup {tx.logIdx}
            /\ ret' = Return("SubmitTransaction", ErrQueueFull)
            /\ UNCHANGED settlementChan
    /\ UNCHANGED <<accounts, transactions, stopClosed, panicked, mutex, worker,
                   clock, results, freezeOps, handle>>

\* lines 97-103: select { case se.settlementChan <- tx: ... default: ... }
SubmitSend(tx) ==
    /\ Alive
    /\ tx \in sending
    /\ sending' = sending \ {tx}
    /\ IF ChanHasRoom
       THEN /\ settlementChan' = Append(settlementChan, tx)
            /\ ret' = Return("SubmitTransaction", NoError)
            /\ UNCHANGED rejected
       ELSE /\ rejected' = rejected \cup {tx.logIdx}
            /\ ret' = Return("SubmitTransaction", ErrQueueFull)
            /\ UNCHANGED settlementChan
    /\ UNCHANGED <<accounts, transactions, stopClosed, panicked, mutex, worker,
                   clock, results, freezeOps, handle>>

\* ------------------------------------------------------- batch processor
\* mutant: the comparison made strict
DebitCoveredStrict(acc, tx) == acc.Balance > tx.Amount

\* mutant: a debit is never refused
DebitCoveredAlways(acc, tx) == TRUE

\* case "debit": if account.Balance >= tx.Amount
DebitCovered(acc, tx) == acc.Balance >= tx.Amount

\* mutant: a credit that subtracts
CreditedSubtracts(acc, tx) == acc.Balance - tx.Amount

\* case "credit": newBalance = account.Balance + tx.Amount
Credited(acc, tx) == acc.Balance + tx.Amount

\* newBalance = account.Balance - tx.Amount
Debited(acc, tx) == acc.Balance - tx.Amount

\* mutant: any type that is not a debit is taken for a credit
DecideDefaultCredit(acc, tx) ==
    IF tx.Type = "debit"
    THEN IF DebitCovered(acc, tx)
         THEN [Success |-> TRUE, NewBalance |-> Debited(acc, tx), ErrorMessage |-> MsgNone]
         ELSE [Success |-> FALSE, NewBalance |-> acc.Balance,
               ErrorMessage |-> MsgInsufficientBalance]
    ELSE [Success |-> TRUE, NewBalance |-> Credited(acc, tx), ErrorMessage |-> MsgNone]

\* lines 178-199: the switch on tx.Type for an account that exists
Decide(acc, tx) ==
    CASE tx.Type = "credit" ->
           [Success |-> TRUE, NewBalance |-> Credited(acc, tx), ErrorMessage |-> MsgNone]
      [] tx.Type = "debit" ->
           IF DebitCovered(acc, tx)
           THEN [Success |-> TRUE, NewBalance |-> Debited(acc, tx),
                 ErrorMessage |-> MsgNone]
           ELSE [Success |-> FALSE, NewBalance |-> acc.Balance,
                 ErrorMessage |-> MsgInsufficientBalance]
      [] OTHER ->
           [Success |-> FALSE, NewBalance |-> acc.Balance, ErrorMessage |-> MsgInvalidType]

\* lines 167-176 and 207-213: the SettlementResult of one loop iteration (a
\* missing account leaves NewBalance at its zero value)
Outcome(accs, tx) ==
    IF tx.UserID \notin DOMAIN accs
    THEN [Success |-> FALSE, NewBalance |-> 0, ErrorMessage |-> MsgAccountNotFound]
    ELSE Decide(accs[tx.UserID], tx)

\* mutant: a transaction on a missing account opens the account
CommitCreates(accs, tx, out) ==
    IF tx.UserID \notin DOMAIN accs
    THEN [x \in DOMAIN accs \cup {tx.UserID} |->
             IF x = tx.UserID THEN NewAccount(x, 0) ELSE accs[x]]
    ELSE IF out.Success
    THEN [accs EXCEPT ![tx.UserID] = [@ EXCEPT !.Balance = out.NewBalance,
                                              !.Version = @ + 1]]
    ELSE accs

\* mutant: the new balance is written to every account
CommitLeaks(accs, tx, out) ==
    IF out.Success
    THEN [v \in DOMAIN accs |-> [accs[v] EXCEPT !.Balance = out.NewBalance,
                                                !.Version = @ + 1]]
    ELSE accs

\* mutant: a successful settlement also releases what is frozen
CommitThaws(accs, tx, out) ==
    IF out.Success
    THEN [accs EXCEPT ![tx.UserID] = [@ EXCEPT !.Balance = out.NewBalance,
                                              !.FrozenAmount = 0,
                                              !.Version = @ + 1]]
    ELSE accs

\* lines 201-205: if success { account.Balance = newBalance; account.Version++ }
Commit(accs, tx, out) ==
    IF out.Success
    THEN [accs EXCEPT ![tx.UserID] = [@ EXCEPT !.Balance = out.NewBalance,
                                              !.Version = @ + 1]]
    ELSE accs

\* The status the loop leaves in the log for a transaction it processed: the
\* loop writes neither tx.Status nor se.transactions.
StatusAfterProcessing(entry, out) == entry.Status

\* the log after one loop iteration
LogAfter(log, tx, out) ==
    [log EXCEPT ![tx.logIdx].Status = StatusAfterProcessing(log[tx.logIdx], out)]

\* A SettlementResult as processBatch prints it, with the account's balance
\* right before and right after the iteration (had is FALSE, and both are 0,
\* when the account does not exist).
Result(accs, tx, out) ==
    [logIdx |-> tx.logIdx, TransactionID |-> tx.ID, UserID |-> tx.UserID,
     Type |-> tx.Type, Amount |-> tx.Amount,
     Success |-> out.Success, NewBalance |-> out.NewBalance,
     ErrorMessage |-> out.ErrorMessage,
     had |-> tx.UserID \in DOMAIN accs,
     before |-> IF tx.UserID \in DOMAIN accs THEN accs[tx.UserID].Balance ELSE 0,
     after |-> IF tx.UserID \in DOMAIN accs
               THEN Commit(accs, tx, out)[tx.UserID].Balance ELSE 0]

Flushing(w) == Alive /\ worker[w].pc \in {"flushSize", "flushTimer", "flushStop"}

\* go se.processSettlementQueue(): lines 228-229
Start ==
    /\ Alive
    /\ worker' = Append(worker, [pc |-> "select", batch |-> <<>>, i |-> 0,
                                 timerLeft |-> BatchTimeout, timerC |-> FALSE])
    /\ UNCHANGED <<accounts, transactions, settlementChan, sending, rejected, stopClosed,
                   panicked, mutex, clock, results, freezeOps, ret, handle>>

\* mutant: Stop returns only once no processor holds a transaction
StopWhenDrained ==
    /\ Alive
    /\ \A w \in DOMAIN worker : worker[w].batch = <<>> \/ worker[w].pc = "stopped"
    /\ IF stopClosed
       THEN /\ panicked' = TRUE
            /\ UNCHANGED stopClosed
       ELSE /\ stopClosed' = TRUE
            /\ UNCHANGED panicked
    /\ UNCHANGED <<accounts, transactions, settlementChan, sending, rejected, mutex,
                   worker, clock, results, freezeOps, ret, handle>>

\* close(se.stopChan): closing a closed channel panics
Stop ==
    /\ Alive
    /\ IF stopClosed
       THEN /\ panicked' = TRUE
            /\ UNCHANGED stopClosed
       ELSE /\ stopClosed' = TRUE
            /\ UNCHANGED panicked
    /\ UNCHANGED <<accounts, transactions, settlementChan, sending, rejected, mutex,
                   worker, clock, results, freezeOps, ret, handle>>

\* mutant: the flush waits for one transaction more
BatchFullStrict(batch) == Len(batch) > BatchSize

\* if len(batch) >= se.batchSize
BatchFull(batch) == Len(batch) >= BatchSize

\* mutant: the receive takes the transaction enqueued last
WorkerRecvLast(w) ==
    /\ Alive
    /\ worker[w].pc = "select"
    /\ settlementChan # <<>>
    /\ settlementChan' = SubSeq(settlementChan, 1, Len(settlementChan) - 1)
    /\ LET batch == Append(worker[w].batch, settlementChan[Len(settlementChan)]) IN
       worker' = [worker EXCEPT ![w].batch = batch,
                                ![w].pc = IF BatchFull(batch) THEN "flushSize" ELSE "select"]
    /\ UNCHANGED <<accounts, transactions, sending, rejected, stopClosed, panicked,
                   mutex, clock, results, freezeOps, ret, handle>>

\* case tx := <-se.settlementChan: lines 234-239
WorkerRecv(w) ==
    /\ Alive
    /\ worker[w].pc = "select"
    /\ settlementChan # <<>>
    /\ settlementChan' = Tail(settlementChan)
    /\ LET batch == Append(worker[w].batch, Head(settlementChan)) IN
       worker' = [worker EXCEPT ![w].batch = batch,
                                ![w].pc = IF BatchFull(batch) THEN "flushSize" ELSE "select"]
    /\ UNCHANGED <<accounts, transactions, sending, rejected, stopClosed, panicked,
                   mutex, clock, results, freezeOps, ret, handle>>

\* mutant: a timeout with an empty batch leaves the timer spent
WorkerTimerNoRearm(w) ==
    /\ Alive
    /\ worker[w].pc = "select"
    /\ worker[w].timerC
    /\ worker' = [worker EXCEPT ![w] =
           IF Len(@.batch) > 0
           THEN [@ EXCEPT !.timerC = FALSE, !.pc = "flushTimer"]
           ELSE [@ EXCEPT !.timerC = FALSE]]
    /\ UNCHANGED <<accounts, transactions, settlementChan, sending, rejected, stopClosed,
                   panicked, mutex, clock, results, freezeOps, ret, handle>>

\* case <-timer.C: lines 244-250 (with an empty batch only the Reset is left)
WorkerTimer(w) ==
    /\ Alive
    /\ worker[w].pc = "select"
    /\ worker[w].timerC
    /\ worker' = [worker EXCEPT ![w] =
           IF Len(@.batch) > 0
           THEN [@ EXCEPT !.timerC = FALSE, !.pc = "flushTimer"]
           ELSE [@ EXCEPT !.timerC = FALSE, !.timerLeft = BatchTimeout]]
    /\ UNCHANGED <<accounts, transactions, settlementChan, sending, rejected, stopClosed,
                   panicked, mutex, clock, results, freezeOps, ret, handle>>

\* mutant: the stop case returns without the final flush
AfterStopDrops(batch) == "stopped"

\* if len(batch) > 0 { se.processBatch(batch) }; return
AfterStop(batch) == IF Len(batch) > 0 THEN "flushStop" ELSE "stopped"

\* mutant: the stop case takes what is on the queue into its final flush
WorkerStopDrains(w) ==
    /\ Alive
    /\ worker[w].pc = "select"
    /\ stopClosed
    /\ worker' = [worker EXCEPT ![w].batch = @ \o settlementChan,
                                ![w].pc = AfterStop(worker[w].batch \o settlementChan)]
    /\ settlementChan' = <<>>
    /\ UNCHANGED <<accounts, transactions, sending, rejected, stopClosed,
                   panicked, mutex, clock, results, freezeOps, ret, handle>>

\* case <-se.stopChan: lines 252-258 (with an empty batch the goroutine returns)
WorkerStop(w) ==
    /\ Alive
    /\ worker[w].pc = "select"
    /\ stopClosed
    /\ worker' = [worker EXCEPT ![w].pc = AfterStop(worker[w].batch)]
    /\ UNCHANGED <<accounts, transactions, settlementChan, sending, rejected, stopClosed,
                   panicked, mutex, clock, results, freezeOps, ret, handle>>

\* batchProcessTransactions, se.mutex.Lock(): lines 161-164
FlushLock(w) ==
    /\ Flushing(w)
    /\ worker[w].i = 0
    /\ LockFree
    /\ mutex' = w
    /\ worker' = [worker EXCEPT ![w].i = 1]
    /\ UNCHANGED <<accounts, transactions, settlementChan, sending, rejected, stopClosed,
                   panicked, clock, results, freezeOps, ret, handle>>

\* mutant: a transaction that fails is put back on the queue
FlushApplyRetries(w) ==
    /\ Flushing(w)
    /\ mutex = w
    /\ worker[w].i \in 1 .. Len(worker[w].batch)
    /\ LET tx == worker[w].batch[worker[w].i]
           out == Outcome(accounts, tx)
       IN /\ accounts' = Commit(accounts, tx, out)
          /\ transactions' = LogAfter(transactions, tx, out)
          /\ results' = Append(results, Result(accounts, tx, out))
          /\ settlementChan' = IF ~out.Success /\ ChanHasRoom
                               THEN Append(settlementChan, tx) ELSE settlementChan
    /\ worker' = [worker EXCEPT ![w].i = @ + 1]
    /\ UNCHANGED <<sending, rejected, stopClosed, panicked, mutex,
                   clock, freezeOps, ret, handle>>

\* mutant: the loop ends at the first transaction that fails
FlushApplyBreaks(w) ==
    /\ Flushing(w)
    /\ mutex = w
    /\ worker[w].i \in 1 .. Len(worker[w].batch)
    /\ LET tx == worker[w].batch[worker[w].i]
           out == Outcome(accounts, tx)
       IN /\ accounts' = Commit(accounts, tx, out)
          /\ transactions' = LogAfter(transactions, tx, out)
          /\ results' = Append(results, Result(accounts, tx, out))
          /\ worker' = [worker EXCEPT ![w].i =
                 IF out.Success THEN @ + 1 ELSE Len(worker[w].batch) + 1]
    /\ UNCHANGED <<settlementChan, sending, rejected, stopClosed, panicked, mutex,
                   clock, freezeOps, ret, handle>>

\* one iteration of for i, tx := range txs: lines 166-214
FlushApply(w) ==
    /\ Flushing(w)
    /\ mutex = w
    /\ worker[w].i \in 1 .. Len(worker[w].batch)
    /\ LET tx == worker[w].batch[worker[w].i]
           out == Outcome(accounts, tx)
       IN /\ accounts' = Commit(accounts, tx, out)
          /\ transactions' = LogAfter(transactions, tx, out)
          /\ results' = Append(results, Result(accounts, tx, out))
    /\ worker' = [worker EXCEPT ![w].i = @ + 1]
    /\ UNCHANGED <<settlementChan, sending, rejected, stopClosed, panicked, mutex,
                   clock, freezeOps, ret, handle>>

\* mutant: Reset leaves a timer that has run out as it is
TimerResetsUnarmed(wr) == { [wr EXCEPT !.timerC = FALSE] }

\* timer.Reset(se.batchTimeout) on a timer whose channel was not drained: up to
\* Go 1.22 a value already sent stays in timer.C, from Go 1.23 on it is dropped.
TimerResets(wr) ==
    { [wr EXCEPT !.timerLeft = BatchTimeout, !.timerC = c] : c \in {FALSE, wr.timerC} }

\* the deferred Unlock and what follows processBatch: lines 240-241, 248-250, 257-258
FlushDone(w) ==
    /\ Flushing(w)
    /\ mutex = w
    /\ worker[w].i > Len(worker[w].batch)
    /\ mutex' = 0
    /\ IF worker[w].pc = "flushStop"
       THEN worker' = [worker EXCEPT ![w].pc = "stopped", ![w].i = 0]
       ELSE \E wr \in TimerResets([worker[w] EXCEPT !.pc = "select", !.i = 0,
                                                     !.batch = <<>>]) :
              worker' = [worker EXCEPT ![w] = wr]
    /\ UNCHANGED <<accounts, transactions, settlementChan, sending, rejected, stopClosed,
                   panicked, clock, results, freezeOps, ret, handle>>

\* time passes by one tick: every armed timer runs, and one that runs out sends
\* on its (buffered) channel
Tick ==
    /\ Alive
    /\ \E w \in DOMAIN worker : worker[w].timerLeft > 0
    /\ worker' = [w \in DOMAIN worker |->
           IF worker[w].timerLeft > 0
           THEN [worker[w] EXCEPT !.timerLeft = @ - 1,
                                  !.timerC = @ \/ worker[w].timerLeft = 1]
           ELSE worker[w]]
    /\ UNCHANGED <<accounts, transactions, settlementChan, sending, rejected, stopClosed,
                   panicked, mutex, clock, results, freezeOps, ret, handle>>

\* ------------------------------------------------------- the specifications
\* The steps of a running batch processor, and of time.
Draining ==
    \/ \E w \in DOMAIN worker : WorkerRecv(w)
    \/ \E w \in DOMAIN worker : WorkerTimer(w)
    \/ \E w \in DOMAIN worker : FlushLock(w)
    \/ \E w \in DOMAIN worker : FlushApply(w)
    \/ \E w \in DOMAIN worker : FlushDone(w)
    \/ Tick

\* Shutdown: the call and the processor taking the signal.
Shutdown ==
    \/ Stop
    \/ \E w \in DOMAIN worker : WorkerStop(w)

\* In every specification below but Restart, Start is called at most once, as
\* main and the tests do.

\* Pipeline: the queue, the batches, the timer and shutdown, with one account
\* and debits of its whole initial balance.
NextPipeline ==
    \/ CreateAccount("u1", 1)
    \/ \E u \in {"u1", ""}, a \in {-1, 0, 1}, ty \in {"debit"} :
         /\ \E t \in FreshReadings : SubmitTransaction(u, a, ty, t)
         /\ Len(transactions') <= MaxTx
    \/ \E tx \in sending : SubmitSend(tx)
    \/ Start /\ worker = <<>>
    \/ Draining
    \/ Shutdown

SpecPipeline == Init /\ [][NextPipeline]_vars

\* Ledger: account creation, freezing and unfreezing with every kind of
\* argument, next to the settlement of debits on one of the accounts.
NextLedger ==
    \/ \E u \in Users, b \in {-1, 0, 2} : CreateAccount(u, b)
    \/ \E u \in Users, a \in {-1, 1, 2} :
         FreezeAmount(u, a) /\ freezeOps' <= MaxFreezeOps
    \/ \E u \in Users, a \in {-1, 1, 2} :
         UnfreezeAmount(u, a) /\ freezeOps' <= MaxFreezeOps
    \/ /\ \E t \in FreshReadings : SubmitTransaction("u1", 1, "debit", t)
       /\ Len(transactions') <= MaxLedgerTx
    \/ \E tx \in sending : SubmitSend(tx)
    \/ Start /\ worker = <<>>
    \/ Draining

SpecLedger == Init /\ [][NextLedger]_vars

\* Readers: GetAccount and GetTransactionStats next to the writers of one
\* account: a credit or a debit being settled, a freeze and an unfreeze.
NextReaders ==
    \/ \E u \in Users : CreateAccount(u, 1)
    \/ \E u \in Users : GetAccount(u)
    \/ GetTransactionStats
    \/ FreezeAmount("u1", 1) /\ freezeOps' <= MaxFreezeOps
    \/ UnfreezeAmount("u1", 1) /\ freezeOps' <= MaxFreezeOps
    \/ \E a \in {0, 1}, ty \in {"credit", "debit"} :
         /\ \E t \in FreshReadings : SubmitTransaction("u1", a, ty, t)
         /\ Len(transactions') <= MaxLedgerTx
    \/ \E tx \in sending : SubmitSend(tx)
    \/ Start /\ worker = <<>>
    \/ Draining

SpecReaders == Init /\ [][NextReaders]_vars

\* every timer has just been armed: nothing of its timeout has run yet
JustArmed ==
    /\ worker # <<>>
    /\ \A w \in DOMAIN worker : worker[w].timerLeft = BatchTimeout /\ ~worker[w].timerC

\* the time since worker w's timer was last armed
Elapsed(w) == BatchTimeout - worker[w].timerLeft

\* Default: what TestCreditTransaction and TestDebitTransaction do: an account,
\* Start, then a transaction whose SubmitTransaction returns while the timer of
\* the processor is freshly armed, a wait, and GetAccount.
NextDefault ==
    \/ \E b \in {0, 1} : CreateAccount("u1", b)
    \/ Start /\ worker = <<>>
    \/ \E ty \in {"credit", "debit"} :
         /\ worker # <<>>
         /\ \E t \in FreshReadings : SubmitTransaction("u1", 1, ty, t)
         /\ Len(transactions') <= MaxLedgerTx
    \/ \E tx \in sending : SubmitSend(tx) /\ JustArmed
    \/ GetAccount("u1")
    \/ Draining

SpecDefault == Init /\ [][NextDefault]_vars

\* Running: a started engine that is never stopped, with debits on one account.
NextRunning ==
    \/ CreateAccount("u1", 1)
    \/ /\ \E t \in FreshReadings : SubmitTransaction("u1", 1, "debit", t)
       /\ Len(transactions') <= MaxTx
    \/ \E tx \in sending : SubmitSend(tx)
    \/ Start /\ worker = <<>>
    \/ Draining

\* The goroutine of the processor is scheduled, its select takes a case that
\* stays ready (the runtime picks among the ready cases at random), the mutex
\* is granted to a waiting writer, and time passes.
FairRunning ==
    /\ WF_vars(\E w \in DOMAIN worker : WorkerRecv(w))
    /\ WF_vars(\E w \in DOMAIN worker : WorkerTimer(w))
    /\ WF_vars(\E w \in DOMAIN worker : FlushLock(w))
    /\ WF_vars(\E w \in DOMAIN worker : FlushApply(w))
    /\ WF_vars(\E w \in DOMAIN worker : FlushDone(w))
    /\ WF_vars(Tick)

SpecRunning == Init /\ [][NextRunning]_vars /\ FairRunning

\* Cross: two accounts, a debit on the first and a credit on the second in
\* flight together, and freezes and unfreezes on both.
NextCross ==
    \/ \E u \in Users : CreateAccount(u, 2)
    \/ \E x \in {<<"u1", "debit">>, <<"u2", "credit">>} :
         /\ \E t \in FreshReadings : SubmitTransaction(x[1], 1, x[2], t)
         /\ Len(transactions') <= MaxCrossTx
    \/ \E tx \in sending : SubmitSend(tx)
    \/ \E u \in Users : FreezeAmount(u, 1) /\ freezeOps' <= MaxFreezeOps
    \/ \E u \in Users : UnfreezeAmount(u, 1) /\ freezeOps' <= MaxFreezeOps
    \/ Start /\ worker = <<>>
    \/ Draining

SpecCross == Init /\ [][NextCross]_vars

\* Atomic: a reader of one account next to flushes of several credits on it.
NextAtomic ==
    \/ CreateAccount("u1", 1)
    \/ GetAccount("u1")
    \/ GetTransactionStats
    \/ /\ \E t \in FreshReadings : SubmitTransaction("u1", 1, "credit", t)
       /\ Len(transactions') <= MaxCrossTx
    \/ \E tx \in sending : SubmitSend(tx)
    \/ Start /\ worker = <<>>
    \/ Draining

SpecAtomic == Init /\ [][NextAtomic]_vars

\* Restart: Start and Stop called any number of times, in any order, around
\* one credit.
NextRestart ==
    \/ CreateAccount("u1", 1)
    \/ Start /\ Len(worker') <= MaxWorkers
    \/ /\ \E t \in FreshReadings : SubmitTransaction("u1", 1, "credit", t)
       /\ Len(transactions') <= MaxLedgerTx
    \/ \E tx \in sending : SubmitSend(tx)
    \/ Draining
    \/ Shutdown

SpecRestart == Init /\ [][NextRestart]_vars

\* Clock: submissions that read the clock as it is, advanced since the last
\* reading or not.
NextClock ==
    \/ CreateAccount("u1", 1)
    \/ \E ty \in {"credit", "debit"} :
         /\ \E t \in ClockReadings : SubmitTransaction("u1", 1, ty, t)
         /\ Len(transactions') <= MaxCrossTx
    \/ \E tx \in sending : SubmitSend(tx)
    \/ Start /\ worker = <<>>
    \/ Draining

SpecClock == Init /\ [][NextClock]_vars

\* Halt: one credit on its way through the processor, Stop, and a GetAccount
\* issued once Stop has returned.
NextHalt ==
    \/ CreateAccount("u1", 1)
    \/ Start /\ worker = <<>>
    \/ /\ \E t \in FreshReadings : SubmitTransaction("u1", 1, "credit", t)
       /\ Len(transactions') <= MaxLedgerTx
    \/ \E tx \in sending : SubmitSend(tx)
    \/ Draining
    \/ Shutdown
    \/ GetAccount("u1") /\ stopClosed

SpecHalt == Init /\ [][NextHalt]_vars

\* Settlement: every kind of transaction that passes validation, against
\* accounts that exist or do not.
NextSettle ==
    \/ \E u \in Users, b \in {0, 2} : CreateAccount(u, b)
    \/ \E u \in Users, a \in {1, 2}, ty \in TxTypes :
         /\ \E t \in FreshReadings : SubmitTransaction(u, a, ty, t)
         /\ Len(transactions') <= MaxSettleTx
    \/ \E tx \in sending : SubmitSend(tx)
    \/ Start /\ worker = <<>>
    \/ Draining

SpecSettle == Init /\ [][NextSettle]_vars

\* ---------------------------------------------------------------- claims
\* the step is one loop iteration of batchProcessTransactions
Processed == Len(results') = Len(results) + 1
\* the SettlementResult that iteration produced
NewResult == results'[Len(results')]

\* C1: after any sequence of CreateAccount, SubmitTransaction + settlement,
\* FreezeAmount and UnfreezeAmount calls with any arguments the API accepts,
\* every account has Balance >= 0 and FrozenAmount >= 0.
C1_NonNegative ==
    \A u \in DOMAIN accounts : accounts[u].Balance >= 0 /\ accounts[u].FrozenAmount >= 0

\* C2: a debit of amount a processed for an existing account succeeds iff
\* a <= Balance at processing time, and then Balance decreases by exactly a;
\* otherwise the result is a failure with the insufficient-balance message, the
\* reported balance is the old balance and the account's Balance is unchanged.
C2_Debit ==
    [][ (Processed /\ NewResult.Type = "debit" /\ HasAccount(NewResult.UserID)) =>
          LET r == NewResult
              old == accounts[r.UserID].Balance
              new == accounts'[r.UserID].Balance
          IN /\ r.Success <=> r.Amount <= old
             /\ r.Success => new = old - r.Amount /\ r.NewBalance = new
             /\ ~r.Success => /\ r.ErrorMessage = MsgInsufficientBalance
                              /\ r.NewBalance = old
                              /\ new = old ]_vars

\* a debit of exactly the balance has been processed and has emptied the account
C2_Witness ==
    \E k \in 1 .. Len(results) :
        /\ results[k].Type = "debit" /\ results[k].had /\ results[k].Success
        /\ results[k].Amount = results[k].before
        /\ results[k].after = 0 /\ results[k].NewBalance = 0

\* C3: a credit of amount a processed for an existing account always succeeds
\* and leaves Balance equal to the Balance right before processing plus a.
C3_Credit ==
    [][ (Processed /\ NewResult.Type = "credit" /\ HasAccount(NewResult.UserID)) =>
          /\ NewResult.Success
          /\ accounts'[NewResult.UserID].Balance =
                accounts[NewResult.UserID].Balance + NewResult.Amount
          /\ NewResult.NewBalance = accounts'[NewResult.UserID].Balance ]_vars

C3_Witness ==
    \E k \in 1 .. Len(results) :
        /\ results[k].Type = "credit" /\ results[k].had /\ results[k].Success
        /\ results[k].after = results[k].before + results[k].Amount
        /\ results[k].Amount > 0

\* the terminal status the claim gives a processed transaction
TerminalStatus(success) == IF success THEN "settled-success" ELSE "settled-failure"

\* C4: every transaction is pending at submission, and once the batch processor
\* has processed it the status recorded in the log is the one terminal status
\* (settled-success or settled-failure) that matches its SettlementResult.
C4_TerminalStatus ==
    \A k \in 1 .. Len(transactions) :
        IF \E j \in 1 .. Len(results) : results[j].logIdx = k
        THEN \A j \in 1 .. Len(results) :
                results[j].logIdx = k =>
                    transactions[k].Status = TerminalStatus(results[j].Success)
        ELSE transactions[k].Status = "pending"

\* two log entries are the same transaction (the status apart)
SameEntry(e, f) ==
    /\ e.logIdx = f.logIdx /\ e.ID = f.ID /\ e.UserID = f.UserID
    /\ e.Amount = f.Amount /\ e.Type = f.Type

\* a caller has passed validation and reached its select in this step
Validated == \E tx \in sending' : tx \notin sending
\* a caller has gone through its select in this step
Sent == \E tx \in sending : tx \notin sending'

\* C5: the log is append-only: its length never decreases, entries keep their
\* position, and every SubmitTransaction call that passes validation appends
\* exactly one entry, whether or not its queue push then succeeds.
C5_AppendOnly ==
    [][ /\ Len(transactions') >= Len(transactions)
        /\ \A k \in 1 .. Len(transactions) : SameEntry(transactions'[k], transactions[k])
        /\ Validated =>
              /\ Len(transactions') = Len(transactions) + 1
              /\ transactions'[Len(transactions')] \in sending'
        /\ ~Validated => Len(transactions') = Len(transactions)
        /\ Sent => transactions' = transactions ]_vars

C5_Witness ==
    /\ Len(transactions) = MaxTx
    /\ rejected # {}
    /\ ret = Return("SubmitTransaction", ErrQueueFull)
    /\ \A k \in 1 .. Len(transactions) : transactions[k].logIdx = k

\* where a logged transaction is
InChan(k) == \E j \in 1 .. Len(settlementChan) : settlementChan[j].logIdx = k
InBatch(k) ==
    \E w \in DOMAIN worker : \E j \in 1 .. Len(worker[w].batch) :
        worker[w].batch[j].logIdx = k
Settled(k) == \E j \in 1 .. Len(results) : results[j].logIdx = k

\* C6: a valid transaction whose select finds the queue holding QueueCap
\* items gets the queue-full error in that step (the select of a live process
\* can always be taken: it never waits); it is in the log, is not put on the
\* queue and is never settled.
C6_QueueFull ==
    /\ [][ \A tx \in sending :
             (tx \notin sending' /\ Len(settlementChan) = QueueCap) =>
                 /\ ret' = Return("SubmitTransaction", ErrQueueFull)
                 /\ settlementChan' = settlementChan
                 /\ tx.logIdx \in rejected'
                 /\ UNCHANGED <<accounts, transactions, results>> ]_vars
    /\ [](Alive => \A tx \in sending : ENABLED SubmitSend(tx))
    /\ [](\A k \in rejected :
             /\ k \in 1 .. Len(transactions)
             /\ ~InChan(k) /\ ~InBatch(k) /\ ~Settled(k))

C6_Witness ==
    /\ rejected # {}
    /\ settlementChan = <<>>
    /\ sending = {}
    /\ \A w \in DOMAIN worker : worker[w].batch = <<>>
    /\ Len(results) = Len(transactions) - Cardinality(rejected)
    /\ Len(results) >= QueueCap

\* C7: SubmitTransaction with an empty user identifier or an amount <= 0 fails
\* with the invalid-transaction error and leaves log, queue and accounts as
\* they are; with a non-empty user and an amount > 0 the transaction is logged
\* and, the queue having room, enqueued, whether or not the account exists.
C7_Validation ==
    [][ /\ \A u \in {"u1", ""}, a \in {-1, 0, 1}, ty \in {"debit"} :
             SubmitTransaction(u, a, ty, clock + 1) =>
                 IF u = "" \/ a <= 0
                 THEN /\ ret' = Return("SubmitTransaction", ErrInvalidTransaction)
                      /\ UNCHANGED <<transactions, settlementChan, sending, accounts>>
                 ELSE /\ Len(transactions') = Len(transactions) + 1
                      /\ LET e == transactions'[Len(transactions')] IN
                            /\ e.UserID = u /\ e.Amount = a /\ e.Type = ty
                            /\ e.Status = "pending"
                            /\ e \in sending'
        /\ \A tx \in sending :
             (SubmitSend(tx) /\ Len(settlementChan) < QueueCap) =>
                 /\ settlementChan' = Append(settlementChan, tx)
                 /\ ret' = Return("SubmitTransaction", NoError) ]_vars

C7_Witness ==
    /\ ret = Return("SubmitTransaction", ErrInvalidTransaction)
    /\ accounts = [u \in {} |-> NewAccount(u, 0)]
    /\ settlementChan # <<>>
    /\ Head(settlementChan).UserID = "u1"
    /\ Len(transactions) = Len(settlementChan)

\* C8: CreateAccount on an identifier that exists returns the duplicate-account
\* error and leaves every account as it is; on a new identifier it inserts an
\* account with the given balance, nothing frozen and version 1, and changes no
\* other account.
C8_CreateAccount ==
    [][ \A u \in Users, b \in {-1, 0, 2} :
          CreateAccount(u, b) =>
              IF u \in DOMAIN accounts
              THEN /\ ret' = Return("CreateAccount", ErrDuplicateAccount)
                   /\ accounts' = accounts
              ELSE /\ ret' = Return("CreateAccount", NoError)
                   /\ DOMAIN accounts' = DOMAIN accounts \cup {u}
                   /\ accounts'[u] = [UserID |-> u, Balance |-> b,
                                      FrozenAmount |-> 0, Version |-> 1]
                   /\ \A v \in DOMAIN accounts : accounts'[v] = accounts[v] ]_vars

C8_Witness ==
    /\ ret = Return("CreateAccount", ErrDuplicateAccount)
    /\ \E u \in DOMAIN accounts : accounts[u].Version > 1
    /\ DOMAIN accounts = Users

\* C9: GetAccount fails with account-not-found for an absent identifier and
\* otherwise hands out a snapshot: what the caller reads through it stays what
\* the account held when GetAccount returned.
C9_Snapshot ==
    /\ (ret = Return("GetAccount", ErrAccountNotFound) => handle = NilHandle)
    /\ (handle # NilHandle => \A v \in HandleReads(handle) : v = handle.snap)

\* C10: FreezeAmount fails with account-not-found for an absent account and
\* with insufficient-balance when the amount exceeds Balance, changing no
\* account; otherwise it moves the amount from Balance to FrozenAmount and
\* adds one to Version, in the call itself and without touching the queue.
C10_Freeze ==
    [][ \A u \in Users, a \in {-1, 1, 2} :
          FreezeAmount(u, a) =>
              /\ UNCHANGED <<transactions, settlementChan, sending, results>>
              /\ IF u \notin DOMAIN accounts
                 THEN /\ ret' = Return("FreezeAmount", ErrAccountNotFound)
                      /\ accounts' = accounts
                 ELSE IF a > accounts[u].Balance
                 THEN /\ ret' = Return("FreezeAmount", ErrFreezeInsufficient)
                      /\ accounts' = accounts
                 ELSE /\ ret' = Return("FreezeAmount", NoError)
                      /\ accounts' = [accounts EXCEPT ![u] =
                            [UserID |-> u,
                             Balance |-> accounts[u].Balance - a,
                             FrozenAmount |-> accounts[u].FrozenAmount + a,
                             Version |-> accounts[u].Version + 1]] ]_vars

C10_Witness ==
    /\ ret = Return("FreezeAmount", NoError)
    /\ \E u \in DOMAIN accounts :
          /\ accounts[u].Balance = 0
          /\ accounts[u].FrozenAmount = 2
          /\ accounts[u].Version = 2

\* C11: UnfreezeAmount fails with account-not-found for an absent account and
\* with insufficient-frozen-funds when the amount exceeds FrozenAmount,
\* changing no account; otherwise it moves the amount from FrozenAmount back
\* to Balance and adds one to Version.
C11_Unfreeze ==
    [][ \A u \in Users, a \in {-1, 1, 2} :
          UnfreezeAmount(u, a) =>
              IF u \notin DOMAIN accounts
              THEN /\ ret' = Return("UnfreezeAmount", ErrAccountNotFound)
                   /\ accounts' = accounts
              ELSE IF a > accounts[u].FrozenAmount
              THEN /\ ret' = Return("UnfreezeAmount", ErrUnfreezeInsufficient)
                   /\ accounts' = accounts
              ELSE /\ ret' = Return("UnfreezeAmount", NoError)
                   /\ accounts' = [accounts EXCEPT ![u] =
                         [UserID |-> u,
                          Balance |-> accounts[u].Balance + a,
                          FrozenAmount |-> accounts[u].FrozenAmount - a,
                          Version |-> accounts[u].Version + 1]] ]_vars

\* the whole frozen amount of an account has been unfrozen
C11_Witness ==
    /\ ret = Return("UnfreezeAmount", NoError)
    /\ \E u \in DOMAIN accounts :
          /\ accounts[u].Balance = 2
          /\ accounts[u].FrozenAmount = 0
          /\ accounts[u].Version = 3

\* C12: whenever FreezeAmount(u, a) succeeds, an UnfreezeAmount(u, a) that
\* finds the account as that freeze left it succeeds and puts Balance and
\* FrozenAmount back to what they were before the freeze.
C12_FreezeUnfreeze ==
    [][ \A u \in Users, a \in {-1, 1, 2} :
          (FreezeAmount(u, a) /\ ret' = Return("FreezeAmount", NoError)) =>
              /\ ~UnfreezeRefused(accounts'[u], a)
              /\ Unfrozen(accounts'[u], a).Balance = accounts[u].Balance
              /\ Unfrozen(accounts'[u], a).FrozenAmount = accounts[u].FrozenAmount ]_vars

\* the last n results are those of the transactions of batch, in order
FlushedInOrder(batch, n) ==
    /\ Len(results) >= n
    /\ \A j \in 1 .. n : results[Len(results) - n + j].logIdx = batch[j].logIdx

\* C13: the receive that puts the BatchSize-th transaction into the buffer
\* takes the processor straight into the flush, which needs no timer to
\* proceed; the processor takes nothing else until every transaction of the
\* buffer has been applied, and it comes back to its select with an empty
\* buffer and the timer re-armed with the full timeout.
C13_SizeFlush ==
    /\ [](\A w \in DOMAIN worker :
             /\ worker[w].pc = "select" => Len(worker[w].batch) < BatchSize
             /\ worker[w].pc = "flushSize" =>
                   /\ Len(worker[w].batch) = BatchSize
                   /\ (Alive /\ mutex \in {0, w}) =>
                         ENABLED (FlushLock(w) \/ FlushApply(w) \/ FlushDone(w)))
    /\ [][ \A w \in DOMAIN worker :
             /\ (WorkerRecv(w) /\ Len(worker'[w].batch) = BatchSize) =>
                    worker'[w].pc = "flushSize"
             /\ (worker[w].pc = "flushSize" /\ worker'[w].pc = "flushSize") =>
                    worker'[w].batch = worker[w].batch
             /\ (worker[w].pc = "flushSize" /\ worker'[w].pc # "flushSize") =>
                    /\ worker'[w].pc = "select"
                    /\ worker'[w].batch = <<>>
                    /\ worker'[w].timerLeft = BatchTimeout
                    /\ FlushedInOrder(worker[w].batch, BatchSize) ]_vars

\* a full buffer has been applied while the timer had not run at all
C13_Witness ==
    \E w \in DOMAIN worker :
        /\ worker[w].pc = "flushSize"
        /\ worker[w].i = BatchSize + 1
        /\ FlushedInOrder(worker[w].batch, BatchSize)
        /\ worker[w].timerLeft = BatchTimeout /\ ~worker[w].timerC

\* the timeout has run out since worker w's timer was last re-armed
TimeoutElapsed(w) == worker[w].timerLeft = 0

\* C14: a running processor whose timer has fired while its buffer holds at
\* least one and fewer than BatchSize transactions can take the timer case,
\* which starts the flush of that buffer; and no transaction of such a buffer
\* is applied before the timeout, counted from the last time the timer was
\* re-armed, has run out.
C14_TimeoutFlush ==
    /\ [](\A w \in DOMAIN worker :
             (Alive /\ worker[w].pc = "select" /\ worker[w].timerC) =>
                 ENABLED WorkerTimer(w))
    /\ [][ \A w \in DOMAIN worker :
             /\ (WorkerTimer(w) /\ Len(worker[w].batch) > 0) =>
                    /\ worker'[w].pc = "flushTimer"
                    /\ worker'[w].batch = worker[w].batch
             /\ (FlushApply(w) /\ worker[w].pc # "flushStop"
                               /\ Len(worker[w].batch) < BatchSize) =>
                    TimeoutElapsed(w) ]_vars

\* C15: once TestWait has passed since SubmitTransaction returned with the
\* transaction on the queue of a started engine, the transaction has been
\* applied (the timeout being longer than TestWait and the batch not full).
C15_AppliedWithinWait ==
    \A k \in 1 .. Len(transactions) :
        ( /\ Alive
          /\ InChan(k) \/ InBatch(k) \/ Settled(k)
          /\ \E w \in DOMAIN worker : Elapsed(w) >= TestWait ) => Settled(k)

\* C16: once the engine is started, every transaction that is on the queue is
\* eventually processed (it gets its SettlementResult), whether its batch
\* fills up or not.
C16_EventuallyProcessed ==
    \A k \in 1 .. MaxTx : (InChan(k) /\ worker # <<>>) ~> Settled(k)

\* the transaction left over after a full batch has been flushed is processed
\* on its own, by the timer
C16_Witness ==
    /\ Len(results) = BatchSize + 1
    /\ Settled(BatchSize + 1)
    /\ \E w \in DOMAIN worker :
          /\ worker[w].pc = "flushTimer"
          /\ Len(worker[w].batch) = 1
          /\ worker[w].batch[1].logIdx = BatchSize + 1

\* C17: a processor that takes the stop signal with a non-empty buffer flushes
\* exactly that buffer: every transaction in it is applied, in order, before
\* the processor is stopped, no transaction ever gets two results, and a
\* stopped processor takes no further step.
C17_StopFlush ==
    /\ [](\A i, j \in 1 .. Len(results) :
             results[i].logIdx = results[j].logIdx => i = j)
    /\ [][ /\ Processed => \E w \in DOMAIN worker : Flushing(w) /\ mutex = w
           /\ \A w \in DOMAIN worker :
                /\ (WorkerStop(w) /\ Len(worker[w].batch) > 0) =>
                       /\ worker'[w].pc = "flushStop"
                       /\ worker'[w].batch = worker[w].batch
                /\ (worker[w].pc = "flushStop" /\ worker'[w].pc = "flushStop") =>
                       worker'[w].batch = worker[w].batch
                /\ (worker[w].pc = "flushStop" /\ worker'[w].pc # "flushStop") =>
                       /\ worker'[w].pc = "stopped"
                       /\ FlushedInOrder(worker[w].batch, Len(worker[w].batch))
                /\ worker[w].pc = "stopped" =>
                       /\ worker'[w].pc = "stopped"
                       /\ worker'[w].batch = worker[w].batch
                       /\ worker'[w].i = worker[w].i ]_vars

\* a processor has stopped after a final flush of a buffer that was not full
C17_Witness ==
    \E w \in DOMAIN worker :
        /\ worker[w].pc = "stopped"
        /\ Len(worker[w].batch) \in 1 .. BatchSize - 1
        /\ FlushedInOrder(worker[w].batch, Len(worker[w].batch))
        /\ stopClosed

\* C18: what GetTransactionStats returns starts at no accounts and no
\* transactions; total_accounts grows by one with each CreateAccount that
\* succeeds and total_transactions by one with each SubmitTransaction that
\* passes validation, and neither changes otherwise; the call itself changes
\* nothing of the engine.
C18_StatsTotals ==
    /\ Stats.total_accounts = 0 /\ Stats.total_transactions = 0
    /\ [][ /\ GetTransactionStats =>
                UNCHANGED <<accounts, transactions, settlementChan, sending, rejected,
                            stopClosed, panicked, mutex, worker, results>>
           /\ Stats'.total_accounts = Stats.total_accounts +
                (IF \E u \in Users : CreateAccount(u, 1) /\ ret' = Return("CreateAccount", NoError)
                 THEN 1 ELSE 0)
           /\ Stats'.total_transactions = Stats.total_transactions +
                (IF Validated THEN 1 ELSE 0) ]_vars

\* GetTransactionStats has returned with both accounts created and a
\* transaction logged and settled
C18_Witness ==
    /\ ret = Return("GetTransactionStats", NoError)
    /\ Stats.total_accounts = 2
    /\ Stats.total_transactions = 1
    /\ Settled(1)

\* C19: in what GetTransactionStats returns, the pending count is the number
\* of logged transactions the processor has not processed yet and the
\* processed count the number it has processed; the two add up to the total.
C19_StatusCounts ==
    /\ Stats.pending_transactions =
          Cardinality({k \in 1 .. Len(transactions) : ~Settled(k)})
    /\ Stats.processed_transactions =
          Cardinality({k \in 1 .. Len(transactions) : Settled(k)})
    /\ Stats.pending_transactions + Stats.processed_transactions =
          Stats.total_transactions

\* every account but u is after the step what it was before
OthersUntouched(u) ==
    /\ DOMAIN accounts' = DOMAIN accounts
    /\ \A v \in DOMAIN accounts \ {u} : accounts'[v] = accounts[v]

\* C20: processing a transaction of user u changes no account but u's, and
\* neither does a FreezeAmount or UnfreezeAmount on u, however the submissions
\* to the two accounts interleave.
C20_NoLeak ==
    [][ /\ Processed => OthersUntouched(NewResult.UserID)
        /\ \A u \in Users :
             (FreezeAmount(u, 1) \/ UnfreezeAmount(u, 1)) => OthersUntouched(u) ]_vars

\* the debit on u1 and the credit on u2 have gone through one flush together,
\* amid freezes, and each account shows its own operations only
C20_Witness ==
    /\ DOMAIN accounts = Users
    /\ Len(results) = 2
    /\ results[1].UserID # results[2].UserID
    /\ results[1].Success /\ results[2].Success
    /\ freezeOps >= 1
    /\ accounts["u1"].Balance + accounts["u1"].FrozenAmount = 1
    /\ accounts["u2"].Balance + accounts["u2"].FrozenAmount = 3
    /\ \E w \in DOMAIN worker : worker[w].pc = "flushSize" /\ worker[w].i = 3

\* C21: no sequence of API calls, a repeated Stop or a Stop without a Start
\* included, takes the process to a panic.
C21_NoPanic == ~panicked

\* C22: the queue never holds more than QueueCap transactions, and a caller
\* in front of its select can always complete the call at once; with the
\* queue full it completes with the queue-full error, whatever the processor
\* does or does not do.
C22_Admission ==
    /\ Len(settlementChan) <= QueueCap
    /\ Alive => \A tx \in sending :
          ENABLED ( /\ SubmitSend(tx)
                    /\ Len(settlementChan) = QueueCap =>
                          ret' = Return("SubmitTransaction", ErrQueueFull) )

\* with no processor started the queue is full and a submission has come
\* back with the queue-full error
C22_Witness ==
    /\ worker = <<>>
    /\ Len(settlementChan) = QueueCap
    /\ ret = Return("SubmitTransaction", ErrQueueFull)
    /\ rejected = {QueueCap + 1}
    /\ sending = {}

\* the log positions of a sequence of transactions or results
LogIdxs(seq) == [j \in 1 .. Len(seq) |-> seq[j].logIdx]

\* the transactions of worker w's buffer that the worker still has to apply
Unapplied(w) ==
    IF worker[w].pc = "stopped" THEN <<>>
    ELSE IF worker[w].i = 0 THEN worker[w].batch
    ELSE SubSeq(worker[w].batch, worker[w].i, Len(worker[w].batch))

\* applied, then drained and waiting, then enqueued and waiting, with the one
\* processor there is
EnqueueOrder ==
    LogIdxs(results) \o (IF worker = <<>> THEN <<>> ELSE LogIdxs(Unapplied(1)))
                     \o LogIdxs(settlementChan)

\* C23: with one processor the transactions are applied in the order in which
\* they were enqueued: the sequence applied - drained - queued changes only
\* by an enqueue at its end, so neither a receive nor a flush reorders it, and
\* a flush applies its buffer front to back.
C23_AppliedInOrder ==
    [][ /\ \/ EnqueueOrder' = EnqueueOrder
           \/ \E tx \in sending : EnqueueOrder' = Append(EnqueueOrder, tx.logIdx)
        /\ Processed => \E w \in DOMAIN worker :
              NewResult.logIdx = worker[w].batch[worker[w].i].logIdx ]_vars

\* three transactions applied over two flushes in the order of their
\* enqueueing, which is not the order of the log
C23_Witness ==
    /\ LogIdxs(results) = <<2, 1, 3>>
    /\ Len(worker) = 1

\* worker w holds the lock between two transactions of its batch
MidFlush(w) ==
    /\ Flushing(w) /\ mutex = w
    /\ worker[w].i \in 2 .. Len(worker[w].batch)

\* the accounts once worker w has applied batch[i], batch[i+1], ...
RECURSIVE ApplyRest(_, _, _)
ApplyRest(accs, batch, i) ==
    IF i > Len(batch) THEN accs
    ELSE ApplyRest(Commit(accs, batch[i], Outcome(accs, batch[i])), batch, i + 1)

\* the balance of u when worker w's flush took the lock
PreFlushBalance(w, u) ==
    LET js == {j \in Len(results) - worker[w].i + 2 .. Len(results) :
                  results[j].UserID = u}
    IN IF js = {} THEN accounts[u].Balance
       ELSE results[CHOOSE j \in js : \A k \in js : j <= k].before

\* the balance of u when worker w's flush will release the lock
PostFlushBalance(w, u) == ApplyRest(accounts, worker[w].batch, worker[w].i)[u].Balance

\* C24: what a caller reads through GetAccount while a flush is between two
\* transactions of its batch is never a balance that only part of the batch
\* has produced: it is the balance GetAccount found, the one from before the
\* flush or the one after it; and GetTransactionStats returns nothing then.
C24_FlushAtomic ==
    \A w \in DOMAIN worker :
        MidFlush(w) =>
            /\ ~ENABLED GetTransactionStats
            /\ handle # NilHandle =>
                  \A v \in HandleReads(handle) :
                      v.Balance \in {handle.snap.Balance,
                                     PreFlushBalance(w, handle.user),
                                     PostFlushBalance(w, handle.user)}

\* C25: every iteration of a flush judges its transaction against the
\* accounts as the iterations before it left them, and goes on to the next
\* transaction whatever the result: a failure changes no account (nothing
\* applied earlier is undone) and the rest of the batch is still applied.
C25_Independent ==
    /\ [](\A w \in DOMAIN worker :
             (Flushing(w) /\ mutex = w /\ worker[w].i \in 1 .. Len(worker[w].batch)) =>
                 ENABLED FlushApply(w))
    /\ [][ \A w \in DOMAIN worker :
             FlushApply(w) =>
                 LET tx == worker[w].batch[worker[w].i]
                     r == NewResult
                 IN /\ r.logIdx = tx.logIdx
                    /\ r.had = HasAccount(tx.UserID)
                    /\ r.had => r.before = accounts[tx.UserID].Balance
                    /\ (r.had /\ tx.Type = "debit") =>
                          (r.Success <=> tx.Amount <= accounts[tx.UserID].Balance)
                    /\ (r.had /\ tx.Type = "credit") => r.Success
                    /\ ~r.Success => accounts' = accounts
                    /\ worker'[w].i = worker[w].i + 1
                    /\ worker'[w].pc = worker[w].pc
                    /\ worker'[w].batch = worker[w].batch ]_vars

\* one flush in which the first transaction failed and the second was applied
C25_Witness ==
    /\ Len(results) = 2
    /\ ~results[1].Success /\ results[2].Success
    /\ results[2].after # results[2].before
    /\ \E w \in DOMAIN worker :
          worker[w].pc = "flushSize" /\ worker[w].i = 3 /\ mutex = w

\* C26: while a flush holds the lock no FreezeAmount, UnfreezeAmount or
\* CreateAccount can take effect, so such a call acts on the accounts before
\* the first or after the last transaction of a batch, never in between.
C26_Serialized ==
    /\ [](\A w \in DOMAIN worker :
             (Flushing(w) /\ mutex = w) =>
                 \A u \in Users :
                     /\ ~ENABLED FreezeAmount(u, 1)
                     /\ ~ENABLED UnfreezeAmount(u, 1)
                     /\ ~ENABLED CreateAccount(u, 2))
    /\ [][ \A u \in Users :
             (FreezeAmount(u, 1) \/ UnfreezeAmount(u, 1) \/ CreateAccount(u, 2)) =>
                 /\ mutex = 0 /\ mutex' = 0
                 /\ results' = results
                 /\ \A w \in DOMAIN worker : ~MidFlush(w) ]_vars

\* a freeze has acted on u1 after the flush that applied the debit on it
C26_Witness ==
    /\ ret = Return("FreezeAmount", NoError)
    /\ Len(results) = 2
    /\ \E k \in 1 .. 2 :
          results[k].UserID = "u1" /\ results[k].before = 2 /\ results[k].Success
    /\ "u1" \in DOMAIN accounts
    /\ accounts["u1"].FrozenAmount = 1 /\ accounts["u1"].Version = 3

\* the step is a successful settlement, FreezeAmount or UnfreezeAmount of u
SucceededOn(u) ==
    \/ Processed /\ NewResult.UserID = u /\ NewResult.Success
    \/ /\ FreezeAmount(u, 1) \/ UnfreezeAmount(u, 1)
       /\ ret'.err = NoError

\* C27: an account is created with Version 1; each successful settlement,
\* FreezeAmount or UnfreezeAmount of it adds exactly one, and every other
\* step (failed operations, reads, operations on other accounts) leaves the
\* Version as it is.
C27_Version ==
    [][ \A u \in DOMAIN accounts' :
          IF u \notin DOMAIN accounts
          THEN accounts'[u].Version = 1
          ELSE accounts'[u].Version =
                  accounts[u].Version + (IF SucceededOn(u) THEN 1 ELSE 0) ]_vars

\* an account that a settlement, a freeze and an unfreeze have taken to
\* Version 4, read by GetAccount
C27_Witness ==
    /\ ret = Return("GetAccount", NoError)
    /\ handle.user = "u1" /\ handle.snap.Version = 4
    /\ accounts["u1"].Version = 4
    /\ Len(results) = 1 /\ freezeOps = 2

\* C28: a transaction processed for a user without an account gets a failed
\* result with the account-not-found message and changes no account; the
\* set of accounts never loses a member and gains one only in a CreateAccount.
C28_AccountNotFound ==
    [][ /\ (Processed /\ ~HasAccount(NewResult.UserID)) =>
              /\ ~NewResult.Success
              /\ NewResult.ErrorMessage = MsgAccountNotFound
              /\ accounts' = accounts
        /\ DOMAIN accounts \subseteq DOMAIN accounts'
        /\ DOMAIN accounts' # DOMAIN accounts =>
              \E u \in Users, b \in {0, 2} :
                  /\ CreateAccount(u, b)
                  /\ DOMAIN accounts' = DOMAIN accounts \cup {u} ]_vars

\* a transaction for u1 has failed for want of an account while u2 has one
C28_Witness ==
    /\ DOMAIN accounts = {"u2"}
    /\ Len(results) = 1
    /\ results[1].UserID = "u1" /\ ~results[1].had
    /\ results[1].ErrorMessage = MsgAccountNotFound

CountIn(seq, k) == Cardinality({j \in 1 .. Len(seq) : seq[j].logIdx = k})

\* in how many places the transaction logged at k is: with a caller, turned
\* away, on the queue, waiting in a buffer, or processed
Occurrences(k) ==
    LET held[n \in 0 .. Len(worker)] ==
        IF n = 0 THEN 0 ELSE held[n - 1] + CountIn(Unapplied(n), k)
    IN Cardinality({tx \in sending : tx.logIdx = k})
         + (IF k \in rejected THEN 1 ELSE 0)
         + CountIn(settlementChan, k)
         + held[Len(worker)]
         + CountIn(results, k)

\* C30: a logged transaction is in one place only: once it has its result it
\* is neither on the queue nor waiting in a buffer, and it never has two
\* results, success or failure, however the balance moves afterwards.
C30_AtMostOnce ==
    \A k \in 1 .. Len(transactions) :
        /\ Occurrences(k) <= 1
        /\ Settled(k) => ~InChan(k) /\ CountIn(results, k) = 1

\* a debit has failed on an empty balance, the balance has since become enough
\* for it, the processor has been through another timeout, and the debit still
\* has its one failed result
C30_Witness ==
    /\ Len(results) = 1
    /\ results[1].Type = "debit" /\ results[1].had /\ ~results[1].Success
    /\ accounts[results[1].UserID].Balance >= results[1].Amount
    /\ settlementChan = <<>> /\ sending = {}
    /\ \E w \in DOMAIN worker :
          worker[w].pc = "select" /\ worker[w].batch = <<>> /\ worker[w].timerC

\* worker w takes the value its timer sent (the case <-timer.C of its select)
TimerTaken(w) == worker[w].pc = "select" /\ worker[w].timerC /\ ~worker'[w].timerC

\* C31: a timer that fires on an empty buffer starts no flush and changes
\* neither accounts, log, queue nor results; with an empty buffer at once, and
\* with a non-empty one when its flush is over, the timer is re-armed with the
\* full timeout and the processor is back in its select with an empty buffer.
C31_EmptyTimeout ==
    [][ \A w \in DOMAIN worker :
          /\ TimerTaken(w) =>
                /\ UNCHANGED <<accounts, transactions, settlementChan, results, mutex>>
                /\ worker'[w].batch = worker[w].batch
                /\ IF worker[w].batch = <<>>
                   THEN /\ worker'[w].pc = "select"
                        /\ worker'[w].i = 0
                        /\ worker'[w].timerLeft = BatchTimeout
                   ELSE worker'[w].pc = "flushTimer"
          /\ (worker[w].pc = "flushTimer" /\ worker'[w].pc # "flushTimer") =>
                /\ worker'[w].pc = "select"
                /\ worker'[w].batch = <<>>
                /\ worker'[w].timerLeft = BatchTimeout ]_vars

\* a timer flush of one transaction is over, the timer re-armed by it has run
\* its full timeout and has fired on an empty buffer and an empty queue
C31_Witness ==
    /\ Len(results) = 1
    /\ settlementChan = <<>> /\ sending = {}
    /\ \E w \in DOMAIN worker :
          /\ worker[w].pc = "select" /\ worker[w].batch = <<>>
          /\ worker[w].timerC /\ worker[w].timerLeft = 0
          /\ ENABLED WorkerTimer(w)

\* the processor has been started and has taken the stop signal
StopTaken ==
    /\ worker # <<>>
    /\ \A w \in DOMAIN worker : worker[w].pc \in {"flushStop", "stopped"}

\* C32: from the moment the processor takes the stop signal nothing leaves
\* the queue any more: what is on it then, and what is enqueued later (a
\* submission is still logged and, the queue having room, enqueued), stays on
\* the queue, is never applied and keeps the status pending; only the buffer
\* the processor held goes through the final flush.
C32_StopLeavesQueue ==
    /\ [](StopTaken => \A k \in 1 .. Len(transactions) :
             InChan(k) => ~Settled(k) /\ ~InBatch(k) /\ transactions[k].Status = "pending")
    /\ [][ /\ \A w \in DOMAIN worker :
                (worker[w].pc = "select" /\ worker'[w].pc \in {"flushStop", "stopped"}) =>
                    /\ settlementChan' = settlementChan
                    /\ worker'[w].batch = worker[w].batch
           /\ StopTaken =>
                /\ StopTaken'
                /\ \A k \in 1 .. Len(transactions) : InChan(k) => InChan(k)'
                /\ \A tx \in sending :
                      (tx \notin sending' /\ Len(settlementChan) < QueueCap) =>
                          /\ settlementChan' = Append(settlementChan, tx)
                          /\ ret' = Return("SubmitTransaction", NoError)
                /\ Validated => Len(transactions') = Len(transactions) + 1
                /\ Processed => \E w \in DOMAIN worker :
                      worker[w].pc = "flushStop" /\ InBatch(NewResult.logIdx) ]_vars

\* the processor has stopped after the final flush of the one transaction it
\* held; the queue still holds the transaction that was on it at the stop and
\* one that was submitted, and accepted, afterwards
C32_Witness ==
    /\ stopClosed /\ Alive
    /\ worker # <<>> /\ \A w \in DOMAIN worker : worker[w].pc = "stopped"
    /\ LogIdxs(results) = <<1>>
    /\ LogIdxs(settlementChan) = <<2, 3>>
    /\ ret = Return("SubmitTransaction", NoError)
    /\ sending = {}
    /\ \A k \in 2 .. 3 : transactions[k].Status = "pending"

\* the processSettlementQueue goroutines that have not returned
Running == {w \in DOMAIN worker : worker[w].pc # "stopped"}

\* C33: at most one batch-processor loop is running at any moment, whatever
\* the sequence of Start and Stop calls.
C33_SingleProcessor == Cardinality(Running) <= 1

\* C34: any two entries of the transaction log have different identifiers,
\* also when two submissions read the same clock value.
C34_UniqueIds ==
    \A i, j \in 1 .. Len(transactions) :
        transactions[i].ID = transactions[j].ID => i = j

\* C35: with accounts created on a balance >= 0 and amounts > 0 in every
\* FreezeAmount and UnfreezeAmount, no account ever has a negative Balance or
\* a negative FrozenAmount, and no settlement reports a negative new balance,
\* however submissions, flushes, freezes and unfreezes interleave.
C35_NonNegativeInputs ==
    /\ \A u \in DOMAIN accounts :
          0 <= accounts[u].Balance /\ 0 <= accounts[u].FrozenAmount
    /\ \A k \in 1 .. Len(results) : 0 <= results[k].NewBalance

\* an account taken down to Balance 0 by a freeze and a debit, on which a
\* second debit has then failed
C35_Witness ==
    /\ "u1" \in DOMAIN accounts
    /\ accounts["u1"].Balance = 0 /\ accounts["u1"].FrozenAmount = 1
    /\ Len(results) = 2
    /\ results[1].Type = "debit" /\ results[1].Success
    /\ results[2].Type = "debit" /\ ~results[2].Success
    /\ results[2].before = 0

\* what a result adds to the funds of its account
Signed(r) ==
    IF ~r.Success THEN 0
    ELSE IF r.Type = "credit" THEN r.Amount
    ELSE IF r.Type = "debit" THEN 0 - r.Amount
    ELSE 0

\* successfully settled credits minus successfully settled debits of u
NetSettled(u) ==
    LET net[n \in 0 .. Len(results)] ==
        IF n = 0 THEN 0
        ELSE net[n - 1] + (IF results[n].UserID = u THEN Signed(results[n]) ELSE 0)
    IN net[Len(results)]

\* Balance + FrozenAmount
Funds(acc) == acc.Balance + acc.FrozenAmount

\* C36: for every account (created here on a balance of 1) Balance +
\* FrozenAmount is the initial balance plus its settled credits minus its
\* settled debits; FreezeAmount and UnfreezeAmount leave the sum as it is;
\* a settlement changes no FrozenAmount, and a debit is paid out of Balance
\* alone, so it succeeds only on Amount <= Balance, whatever is frozen.
C36_Conservation ==
    /\ [](\A u \in DOMAIN accounts : Funds(accounts[u]) = 1 + NetSettled(u))
    /\ [][ /\ (FreezeAmount("u1", 1) \/ UnfreezeAmount("u1", 1)) =>
                 \A u \in DOMAIN accounts : Funds(accounts'[u]) = Funds(accounts[u])
           /\ Processed =>
                 /\ DOMAIN accounts' = DOMAIN accounts
                 /\ \A u \in DOMAIN accounts :
                       accounts'[u].FrozenAmount = accounts[u].FrozenAmount
                 /\ (NewResult.had /\ NewResult.Type = "debit" /\ NewResult.Success) =>
                       NewResult.Amount <= accounts[NewResult.UserID].Balance ]_vars

\* the whole balance of u1 is frozen and a debit of that amount has failed on
\* it: the frozen funds are still there
C36_Witness ==
    /\ "u1" \in DOMAIN accounts
    /\ accounts["u1"].Balance = 0 /\ accounts["u1"].FrozenAmount = 1
    /\ Len(results) = 1
    /\ results[1].Type = "debit" /\ results[1].Amount = 1
    /\ results[1].had /\ results[1].before = 0 /\ ~results[1].Success
    /\ results[1].ErrorMessage = MsgInsufficientBalance

\* the log holds, at the position tx names, the copy made of tx
InLog(tx) ==
    /\ tx.logIdx \in 1 .. Len(transactions)
    /\ SameEntry(transactions[tx.logIdx], tx)

\* C37: a transaction is logged before it is enqueued: every transaction that
\* a caller is about to send, that is on the queue or in a processor's buffer
\* has its entry in the log, and so has every transaction that has a result.
C37_LogBeforeQueue ==
    /\ \A tx \in sending : InLog(tx)
    /\ \A j \in 1 .. Len(settlementChan) : InLog(settlementChan[j])
    /\ \A w \in DOMAIN worker : \A j \in 1 .. Len(worker[w].batch) :
          InLog(worker[w].batch[j])
    /\ \A j \in 1 .. Len(results) :
          /\ results[j].logIdx \in 1 .. Len(transactions)
          /\ transactions[results[j].logIdx].ID = results[j].TransactionID
          /\ transactions[results[j].logIdx].UserID = results[j].UserID

\* three logged transactions: one settled, one on the queue, and one whose
\* caller has appended it to the log and has not reached the send yet
C37_Witness ==
    /\ Len(transactions) = 3
    /\ LogIdxs(results) = <<1>>
    /\ LogIdxs(settlementChan) = <<2>>
    /\ \E tx \in sending : tx.logIdx = 3 /\ sending = {tx}

\* the logged transactions whose SubmitTransaction has returned with success
ReturnedOk ==
    {k \in 1 .. Len(transactions) :
        k \notin rejected /\ \A tx \in sending : tx.logIdx # k}

\* the position of log index k in the order applied - drained - queued (0 if
\* it is not there)
PlaceOf(order, k) ==
    IF \E p \in 1 .. Len(order) : order[p] = k
    THEN CHOOSE p \in 1 .. Len(order) : order[p] = k
    ELSE 0

\* C38: a transaction submitted after an earlier SubmitTransaction has
\* returned with success comes after that one in the log and in the order of
\* application.  When the later call logs its transaction the earlier one is
\* already in the order applied - drained - queued and the later one is not;
\* the log and that order then grow at their ends only and keep every place,
\* whatever other callers enqueue in between.
C38_CallerOrder ==
    [][ /\ Validated =>
             /\ Len(transactions') = Len(transactions) + 1
             /\ \A k \in ReturnedOk :
                   /\ k < Len(transactions')
                   /\ PlaceOf(EnqueueOrder', k) > 0
             /\ PlaceOf(EnqueueOrder', Len(transactions')) = 0
        /\ \A k \in 1 .. Len(transactions) :
             /\ SameEntry(transactions'[k], transactions[k])
             /\ PlaceOf(EnqueueOrder, k) > 0 =>
                   PlaceOf(EnqueueOrder', k) = PlaceOf(EnqueueOrder, k)
        /\ Len(EnqueueOrder') >= Len(EnqueueOrder)
        /\ Processed => PlaceOf(EnqueueOrder, NewResult.logIdx) = Len(results') ]_vars

\* the callers of the first two transactions have overtaken each other on the
\* way to the queue; the third, logged after both had returned, is behind both
\* and is applied last
C38_Witness ==
    /\ EnqueueOrder = <<2, 1, 3>>
    /\ LogIdxs(results) = <<2, 1>>
    /\ \E w \in DOMAIN worker :
          worker[w].pc = "flushTimer" /\ LogIdxs(worker[w].batch) = <<3>>
                                      /\ worker[w].i = 1 /\ mutex = w
    /\ sending = {} /\ rejected = {}

\* C39: Stop only closes the stop channel: it can be taken whatever the
\* processor is doing, it changes neither the processor nor any account, and
\* the final flush runs after it, so that while Stop has returned and a
\* processor still holds transactions the settlement of those is still to
\* come (a GetAccount issued after Stop finds the balance from before it).
C39_StopDoesNotWait ==
    /\ [](Alive => ENABLED Stop)
    /\ [](\A w \in DOMAIN worker :
             (Alive /\ stopClosed /\ worker[w].pc = "select" /\ worker[w].batch # <<>>) =>
                 /\ ENABLED WorkerStop(w)
                 /\ ENABLED GetAccount("u1")
                 /\ \A j \in 1 .. Len(worker[w].batch) :
                       ~Settled(worker[w].batch[j].logIdx))
    /\ [][ stopClosed' # stopClosed =>
             UNCHANGED <<accounts, transactions, settlementChan, worker, mutex,
                         results, handle>> ]_vars
    /\ [][ \A w \in DOMAIN worker :
             (Processed /\ worker[w].pc = "flushStop" /\ mutex = w) => stopClosed ]_vars

\* GetAccount, issued after Stop had returned, found Balance 1; the final
\* flush has since applied the credit the processor held and the balance the
\* caller can read through the account it was handed is 2
C39_Witness ==
    /\ stopClosed /\ Alive
    /\ handle.user = "u1" /\ handle.snap.Balance = 1
    /\ accounts["u1"].Balance = 2
    /\ Len(results) = 1 /\ results[1].Success /\ results[1].before = 1
    /\ \E w \in DOMAIN worker :
          worker[w].pc = "stopped" /\ LogIdxs(worker[w].batch) = <<1>>
    /\ \E v \in HandleReads(handle) : v.Balance = 2

====
